---- MODULE Spec2Model ----
(***************************************************************************)
(* The graph execution kernel of cannoli: CannoliObject's status machine,  *)
(* its dependency terms, the EventEmitter listeners that propagate         *)
(* "update" notifications, and the plugin's start/stop toggle.             *)
(*                                                                         *)
(* JavaScript runs one handler at a time: everything a handler does        *)
(* synchronously, nested emit() calls included, is one atomic action.  The *)
(* only suspension point of the kernel is the await inside execute(); the  *)
(* code before it (execute) and the code after it (executeResume) are      *)
(* separate steps, and the continuations of different objects interleave   *)
(* freely.                                                                 *)
(*                                                                         *)
(* The classes Run, CannoliFactory and the concrete node, edge and group   *)
(* types are not part of the sources at hand; what the kernel needs of     *)
(* them (start, stop, the readiness override of dependencyCompleted, the   *)
(* rejection of a branch that is not taken) follows the specification and  *)
(* is marked so where it is defined.                                       *)
(***************************************************************************)
EXTENDS Integers, Sequences, FiniteSets, TLC

\* Bounds of the model.
NumObjects == 4
MaxAlt == 3
MaxTerms == 3
MaxWired == 4
NumCalls == 3
MaxStarts == 2
NumSlots == 3
MaxNodes == 2
MaxEdges == 1
MaxCoord == 2

Objects == 1..NumObjects

\* enum CannoliObjectStatus of the object module (four members).
Pending == "pending"
Executing == "executing"
Complete == "complete"
Rejected == "rejected"
Statuses == {Pending, Executing, Complete, Rejected}

\* The fifth member of enum CannoliObjectStatus of the graph module; the
\* enumeration of the object module, which the kernel uses, has no such member.
Error == "error"

\* A dependency term: string | string[].  An array term keeps the ids of an
\* alternative set; its members are distinct, so a set stands for the array.
Single(d) == [alt |-> FALSE, ids |-> {d}]
AnyOf(s) == [alt |-> TRUE, ids |-> s]

\* The terms the factory can hand to addDependency of object o.  Objects are
\* numbered along the canvas DAG: a term of o names objects before o.
TermsOf(o) ==
  {Single(d) : d \in 1..(o - 1)} \cup
  {AnyOf(s) : s \in {t \in SUBSET (1..(o - 1)) : Cardinality(t) >= 2 /\ Cardinality(t) <= MaxAlt}}

VARIABLES
  deps,             \* deps[o]: this.dependencies, a sequence of terms
  status,           \* status[o]: this.status
  listeners,        \* listeners[x]: the "update" listeners of x, in registration order
  inflight,         \* objects whose execute() is suspended in its await
  phase,            \* "build" | "running" | "stopped" | "finished"
  reason,           \* Stoppage.reason: "none" | "complete" | "error" | "stopped"
  isMock,           \* run.isMock
  runningCannolis,  \* TRUE iff runningCannolis[file.basename] holds the run
  log,              \* what the last handler did, in program order
  lastAdd,          \* the last addDependency call and whether it threw
  executed,         \* history: objects that ever entered Executing
  conflicted,       \* history: objects one of whose listeners threw
  stopRequested,    \* history: the toggle took its stop branch
  canvas,           \* the vertices of this.graph, in insertion order
  groups,           \* groups[v]: this.groups of vertex v
  probe,            \* the last overlaps(a, b) call and what it returned
  pc,               \* pc[c]: where invocation c of startCannoli stands
  stored,           \* the Run held in runningCannolis[file.basename], 0: none
  live,             \* the Runs started and neither finished nor stopped
  cannoliCanvasData, \* the document handed to the constructor of CannoliGraph
  graph,            \* this.graph: the id-to-object mapping, as id -> class
  hydrated          \* "no" | "returned" | "threw": how hydrateGraph() ended

\* The state of the graph execution kernel.
kernel == <<deps, status, listeners, inflight, phase, reason, isMock,
            runningCannolis, log, lastAdd, executed, conflicted, stopRequested>>

\* The state of the geometric group assignment.
geometry == <<canvas, groups, probe>>

\* The state of the plugin's registry of running cannolis.
plugin == <<pc, stored, live>>

\* The state of graph hydration.
hydration == <<cannoliCanvasData, graph, hydrated>>

vars == <<kernel, geometry, plugin, hydration>>

\* One entry of the log: kind k, object o, dependency d (0: none), the status
\* s the entry carries and the status c read when the entry was written.
Ev(k, o, d, s, c) == [k |-> k, o |-> o, d |-> d, s |-> s, c |-> c]

AddLog(S, e) == [S EXCEPT !.log = Append(@, e)]

\* A handler's working state: the fields a synchronous cascade reads and writes.
Working(L, mock) ==
  [status |-> status, listeners |-> L, inflight |-> inflight, log |-> <<>>,
   thrown |-> FALSE, conflicted |-> conflicted, executed |-> executed,
   isMock |-> mock]

RECURSIVE emit(_, _, _)
RECURSIVE callListeners(_, _, _, _)
RECURSIVE tryRejectFrom(_, _, _)
RECURSIVE setupFrom(_, _, _)
RECURSIVE setupAll(_, _)
RECURSIVE executeRoots(_, _)
RECURSIVE rejectAll(_, _, _)
RECURSIVE resetAll(_, _)

\* Variant: only single-id terms are compared (dependency === pd).
isDependency_SingleOnly(o, term) ==
  \E pd \in term.ids : \E i \in 1..Len(deps[o]) :
    ~deps[o][i].alt /\ deps[o][i].ids = {pd}

\* isDependency(potentialDependency): some id of the term occurs in some term
\* already in this.dependencies.
isDependency(o, term) ==
  \E pd \in term.ids : \E i \in 1..Len(deps[o]) : pd \in deps[o][i].ids

\* Array.isArray(dependency) && dependency.every(d => graph[d].status === Rejected),
\* or graph[dependency].status === Rejected: the tests of tryReject's callback.
termRejected(S, term) == \A d \in term.ids : S.status[d] = Rejected

\* this.status = s, as tryReject, execute and reset write it.
setStatus(S, o, s) ==
  [AddLog(S, Ev("set", o, 0, s, S.status[o])) EXCEPT !.status[o] = s]

\* tryReject(run): this.dependencies.every(callback).  The callback returns
\* true after rejecting on a fully rejected term, so every() goes on to the
\* next term; it returns undefined on any other term, so every() stops there.
tryRejectFrom(S, o, i) ==
  IF i > Len(deps[o]) THEN S
  ELSE IF termRejected(S, deps[o][i])
       THEN tryRejectFrom(emit(setStatus(S, o, Rejected), o, Rejected), o, i + 1)
       ELSE S

\* Variant: the status is written but the update is not emitted.
tryReject_NoEmit(S, o) ==
  IF \E i \in 1..Len(deps[o]) : termRejected(S, deps[o][i])
  THEN setStatus(S, o, Rejected)
  ELSE S

tryReject(S, o) ==
  LET any == \E i \in 1..Len(deps[o]) : termRejected(S, deps[o][i])
      S1 == AddLog(S, Ev("tryReject", o, 0, IF any THEN "any" ELSE "none", S.status[o]))
      S2 == tryRejectFrom(S1, o, 1)
  IN AddLog(S2, Ev("tryRejectEnd", o, 0, "-", S2.status[o]))

\* Variant: the loop returns after its first term.
allDependenciesComplete_FirstTerm(S, o) ==
  Len(deps[o]) = 0 \/ \A d \in deps[o][1].ids : S.status[d] = Complete

\* Variant: one Complete term is enough.
allDependenciesComplete_Some(S, o) ==
  \E i \in 1..Len(deps[o]) : \A d \in deps[o][i].ids : S.status[d] = Complete

\* Variant: an array term asks for some Complete member.
allDependenciesComplete_AnyMember(S, o) ==
  \A i \in 1..Len(deps[o]) : \E d \in deps[o][i].ids : S.status[d] = Complete

\* allDependenciesComplete(): every id of every term is Complete.
allDependenciesComplete(S, o) ==
  \A i \in 1..Len(deps[o]) : \A d \in deps[o][i].ids : S.status[d] = Complete

\* execute(run) up to its await: Executing, emit, then the unit of work is
\* called (mockRun under a mock run, run otherwise) and the method suspends.
execute(S, o) ==
  LET S1 == emit(setStatus(S, o, Executing), o, Executing)
      S2 == AddLog(S1, Ev(IF S1.isMock THEN "mockRun" ELSE "run", o, 0, "-", S1.status[o]))
  IN [S2 EXCEPT !.inflight = @ \cup {o}, !.executed = @ \cup {o}]

\* dependencyCompleted as the concrete types override it (the base method is
\* empty): a Pending object whose readiness poll succeeds starts executing.
dependencyCompleted(S, o, d) ==
  IF S.status[o] = Pending /\ allDependenciesComplete(S, o) THEN execute(S, o) ELSE S

\* dependencyRejected(dependency, run) { this.tryReject(run); }
dependencyRejected(S, o, d) == tryReject(S, o)

\* Variant: the default branch of the switch attempts self-rejection too.
dependencyUpdated_DefaultRejects(S, o, d, s) ==
  LET S1 == AddLog(S, Ev("updated", o, d, s, S.status[d]))
  IN CASE s = Complete -> dependencyCompleted(S1, o, d)
       [] OTHER -> dependencyRejected(S1, o, d)

\* dependencyUpdated(dependency, status, run): the switch on status.
dependencyUpdated(S, o, d, s) ==
  LET S1 == AddLog(S, Ev("updated", o, d, s, S.status[d]))
  IN CASE s = Complete -> dependencyCompleted(S1, o, d)
       [] s = Rejected -> dependencyRejected(S1, o, d)
       [] OTHER -> S1

\* The listener setupListeners registers for a single-id term.
singleListener(S, o, x, s) ==
  dependencyUpdated(AddLog(S, Ev("listener", o, x, s, S.status[x])), o, x, s)

\* Variant: the conflict test is off by one (length > 2).
arrayListener_OffByOne(S, o, t, x, s) ==
  LET S1 == AddLog(S, Ev("listener", o, x, s, S.status[x]))
      completeDependencies == {d \in deps[o][t].ids : S1.status[d] = Complete}
  IN IF s = Complete /\ Cardinality(completeDependencies) > 2
     THEN [AddLog(S1, Ev("throw", o, x, s, S1.status[x]))
             EXCEPT !.thrown = TRUE, !.conflicted = @ \cup {o}]
     ELSE dependencyUpdated(S1, o, x, s)

\* The listener setupListeners registers on each member of an array term: on
\* Complete it counts the Complete members of the term and throws on more
\* than one, before dependencyUpdated is reached.
arrayListener(S, o, t, x, s) ==
  LET S1 == AddLog(S, Ev("listener", o, x, s, S.status[x]))
      completeDependencies == {d \in deps[o][t].ids : S1.status[d] = Complete}
  IN IF s = Complete /\ Cardinality(completeDependencies) > 1
     THEN [AddLog(S1, Ev("throw", o, x, s, S1.status[x]))
             EXCEPT !.thrown = TRUE, !.conflicted = @ \cup {o}]
     ELSE dependencyUpdated(S1, o, x, s)

\* EventEmitter.emit: the listeners run in registration order; a listener
\* that throws ends the emit, and the listeners after it are not called.
callListeners(S, x, s, i) ==
  IF S.thrown \/ i > Len(S.listeners[x]) THEN S
  ELSE LET l == S.listeners[x][i]
       IN callListeners(
            IF deps[l.owner][l.term].alt
            THEN arrayListener(S, l.owner, l.term, x, s)
            ELSE singleListener(S, l.owner, x, s),
            x, s, i + 1)

\* this.emit("update", this, s, run).
emit(S, x, s) == callListeners(AddLog(S, Ev("emit", x, 0, s, S.status[x])), x, s, 1)

\* setupListeners(): one listener per term on each object the term names.
setupFrom(L, o, i) ==
  IF i > Len(deps[o]) THEN L
  ELSE setupFrom(
         [x \in Objects |->
            IF x \in deps[o][i].ids
            THEN Append(L[x], [owner |-> o, term |-> i])
            ELSE L[x]],
         o, i + 1)

setupListeners(L, o) == setupFrom(L, o, 1)

\* Variant: the status is written but the update is not emitted.
reset_NoEmit(S, o) == setStatus(S, o, Pending)

\* reset(run): Pending, emit.
reset(S, o) == emit(setStatus(S, o, Pending), o, Pending)

\* Run.reset(): every object of the graph is reset, in the order of the
\* graph mapping.
resetAll(S, o) ==
  IF o > NumObjects THEN S ELSE resetAll(reset(S, o), o + 1)

\* A branch that is not taken: the object is set Rejected and emits, as the
\* specification describes the logical short-circuit of an untaken branch.
reject(S, o) ==
  IF S.status[o] = Pending THEN emit(setStatus(S, o, Rejected), o, Rejected) ELSE S

rejectAll(S, rej, o) ==
  IF o > NumObjects THEN S
  ELSE rejectAll(IF o \in rej THEN reject(S, o) ELSE S, rej, o + 1)

\* Run.start(): listeners on every object, in the order of the graph mapping,
\* then execute on every object with no dependency.
setupAll(L, o) ==
  IF o > NumObjects THEN L ELSE setupAll(setupListeners(L, o), o + 1)

executeRoots(S, o) ==
  IF o > NumObjects THEN S
  ELSE executeRoots(IF Len(deps[o]) = 0 THEN execute(S, o) ELSE S, o + 1)

runStart(L, mock) == executeRoots(Working(setupAll(L, 1), mock), 1)

\* The objects whose dependency terms name x.
Dependents(x) == {o \in Objects : \E i \in 1..Len(deps[o]) : x \in deps[o][i].ids}

\* Run's verdict after a handler: a thrown fault is fatal ("error"); with no
\* object Pending or Executing the run is "complete"; otherwise it goes on.
runVerdict(S) ==
  IF S.thrown THEN "error"
  ELSE IF \A o \in Objects : S.status[o] \in {Complete, Rejected} THEN "complete"
  ELSE "none"

\* No addDependency call on record.
NoAdd == [o |-> 0, term |-> Single(0), threw |-> FALSE]

\* The number of dependency terms in the graph.
RECURSIVE TermCount(_)
TermCount(o) == IF o > NumObjects THEN 0 ELSE Len(deps[o]) + TermCount(o + 1)

\* No overlaps call on record.
NoProbe == [a |-> 0, b |-> 0, result |-> FALSE]

\* The invocations of startCannoli the plugin can have under way.
Calls == 1..NumCalls

\* The objects as their constructor leaves them, and no run.
constructed ==
  /\ deps = [o \in Objects |-> <<>>]
  /\ status = [o \in Objects |-> Pending]
  /\ listeners = [o \in Objects |-> <<>>]
  /\ inflight = {}
  /\ phase = "build"
  /\ reason = "none"
  /\ isMock = FALSE
  /\ runningCannolis = FALSE
  /\ log = <<>>
  /\ lastAdd = NoAdd
  /\ executed = {}
  /\ conflicted = {}
  /\ stopRequested = FALSE

\* No canvas is laid out.
noCanvas ==
  /\ canvas = <<>>
  /\ groups = <<>>
  /\ probe = NoProbe

\* No command or ribbon click is under way and runningCannolis = {}.
noCalls ==
  /\ pc = [c \in Calls |-> "idle"]
  /\ stored = 0
  /\ live = {}

\* No document is hydrated and this.graph = {}.
noDocument ==
  /\ cannoliCanvasData = [nodes |-> <<>>, edges |-> <<>>]
  /\ graph = <<>>
  /\ hydrated = "no"

Init == constructed /\ noCanvas /\ noCalls /\ noDocument

\* addDependency(dependency): throws on a term isDependency knows, else pushes.
\* A call touches the list of its own object only, so the calls are taken
\* object by object.
addDependency(o, term) ==
  /\ phase = "build"
  /\ \A p \in Objects : p > o => deps[p] = <<>>
  /\ lastAdd' = [o |-> o, term |-> term, threw |-> isDependency(o, term)]
  /\ deps' = IF isDependency(o, term) THEN deps
             ELSE [deps EXCEPT ![o] = Append(@, term)]
  /\ UNCHANGED <<status, listeners, inflight, phase, reason, isMock,
                 runningCannolis, log, executed, conflicted, stopRequested,
                 geometry, plugin, hydration>>

\* Run.stop(): cancellation is signalled and the Stoppage reports "stopped".
stop ==
  /\ phase' = "stopped"
  /\ reason' = "stopped"

\* The unit of work hands control back to execute() only while the run is
\* live: stop is observed at the suspension point and the result discarded,
\* and a fault is fatal to the run.
unitOfWorkReturns == phase = "running"

\* startCannoli(file) past its awaits: the live run (isMock: false) is
\* created, stored in runningCannolis and started.
startCannoli ==
  /\ phase = "build"
  /\ ~runningCannolis
  /\ isMock' = FALSE
  /\ \E S \in {runStart(listeners, FALSE)} :
        /\ status' = S.status
        /\ listeners' = S.listeners
        /\ inflight' = S.inflight
        /\ log' = S.log
        /\ executed' = S.executed
        /\ conflicted' = S.conflicted
  /\ phase' = "running"
  /\ runningCannolis' = TRUE
  /\ lastAdd' = NoAdd
  /\ UNCHANGED <<deps, reason, stopRequested, geometry, plugin, hydration>>

\* The validation run: a Run with isMock: true started on the same graph; it
\* is not stored in runningCannolis.
mockStart ==
  /\ phase = "build"
  /\ isMock' = TRUE
  /\ \E S \in {runStart(listeners, TRUE)} :
        /\ status' = S.status
        /\ listeners' = S.listeners
        /\ inflight' = S.inflight
        /\ log' = S.log
        /\ executed' = S.executed
        /\ conflicted' = S.conflicted
  /\ phase' = "running"
  /\ lastAdd' = NoAdd
  /\ UNCHANGED <<deps, reason, runningCannolis, stopRequested, geometry, plugin, hydration>>

\* The branches of x: the Pending objects that depend on x and on nothing
\* else (the outgoing edges of a choosing node).
Branches(x) == {y \in Objects : deps[y] = <<Single(x)>> /\ status[y] = Pending}

\* The handler that resumes execute(run) of x after its await: the unit of
\* work has rejected the branches rej it did not take; then Complete, emit.
resumed(x, rej) ==
  LET S0 == [Working(listeners, isMock) EXCEPT !.inflight = @ \ {x}]
      S1 == rejectAll(S0, rej, 1)
  IN emit(setStatus(S1, x, Complete), x, Complete)

\* execute(run) after its await.  Run then gives its verdict, and onFinish
\* deletes the entry of runningCannolis.
executeResume(x, rej) ==
  /\ x \in inflight
  /\ unitOfWorkReturns
  /\ rej \subseteq Branches(x)
  /\ \E S \in {resumed(x, rej)} :
     LET verdict == runVerdict(S)
     IN /\ status' = S.status
        /\ inflight' = S.inflight
        /\ log' = S.log
        /\ executed' = S.executed
        /\ conflicted' = S.conflicted
        /\ reason' = verdict
        /\ phase' = IF verdict = "none" THEN "running" ELSE "finished"
        /\ runningCannolis' = IF verdict = "none" THEN runningCannolis ELSE FALSE
  /\ UNCHANGED <<deps, listeners, isMock, lastAdd, stopRequested, geometry, plugin, hydration>>

\* execute(run) when the awaited unit of work throws: execute has no catch,
\* so its promise rejects at the await, the two lines after the await are not
\* run, and nothing is written or emitted.  The fault is fatal to the run.
executeThrows(x) ==
  /\ x \in inflight
  /\ unitOfWorkReturns
  /\ inflight' = inflight \ {x}
  /\ log' = <<Ev("fault", x, 0, "-", status[x])>>
  /\ reason' = "error"
  /\ phase' = "finished"
  /\ runningCannolis' = FALSE
  /\ UNCHANGED <<deps, status, listeners, isMock, lastAdd, executed, conflicted,
                 stopRequested, geometry, plugin, hydration>>

\* Variant: the entry is deleted but the run is not stopped.
startOrStopCannoli_NoStop ==
  IF runningCannolis
  THEN /\ runningCannolis' = FALSE
       /\ stopRequested' = TRUE
       /\ log' = <<>>
       /\ UNCHANGED <<deps, status, listeners, inflight, isMock, lastAdd,
                      executed, conflicted, phase, reason, geometry, plugin, hydration>>
  ELSE startCannoli

\* startOrStopCannoli: a run stored for the file is stopped and its entry
\* deleted; otherwise startCannoli is called.
startOrStopCannoli ==
  IF runningCannolis
  THEN /\ stop
       /\ runningCannolis' = FALSE
       /\ stopRequested' = TRUE
       /\ log' = <<>>
       /\ UNCHANGED <<deps, status, listeners, inflight, isMock, lastAdd,
                      executed, conflicted, geometry, plugin, hydration>>
  ELSE startCannoli

Next ==
  \/ /\ TermCount(1) < MaxTerms
     /\ \E o \in Objects : \E term \in TermsOf(o) : addDependency(o, term)
  \/ startCannoli
  \/ mockStart
  \/ \E x \in Objects : \E rej \in SUBSET Objects : executeResume(x, rej)
  \/ \E x \in Objects : executeThrows(x)
  \/ startOrStopCannoli

Spec == Init /\ [][Next]_vars

\* A graph of up to MaxWired terms is wired, started once and run; nothing
\* throws and nobody stops the run.
NextWired ==
  \/ /\ TermCount(1) < MaxWired
     /\ \E o \in Objects : \E term \in TermsOf(o) : addDependency(o, term)
  \/ startCannoli
  \/ \E x \in Objects : \E rej \in SUBSET Objects : executeResume(x, rej)

SpecWired == Init /\ [][NextWired]_vars

\* The number of dependency terms that name x.
Refs(x) ==
  Cardinality({ot \in Objects \X (1..MaxTerms) :
                 ot[2] <= Len(deps[ot[1]]) /\ x \in deps[ot[1]][ot[2]].ids})

\* Run.reset() on a run that has ended: the objects go back to Pending; what
\* is still suspended in an await belongs to the ended run and is abandoned.
runReset ==
  /\ phase \in {"finished", "stopped"}
  /\ \E S \in {resetAll([Working(listeners, isMock) EXCEPT !.inflight = {}], 1)} :
        /\ status' = S.status
        /\ inflight' = S.inflight
        /\ log' = S.log
  /\ phase' = "reset"
  /\ reason' = "none"
  /\ executed' = {}
  /\ conflicted' = {}
  /\ stopRequested' = FALSE
  /\ UNCHANGED <<deps, listeners, isMock, runningCannolis, lastAdd, geometry, plugin, hydration>>

\* Run.start() on the graph that was reset: setupListeners() is called on
\* every object once more, then the objects with no dependency execute.
runRestart ==
  /\ phase = "reset"
  /\ \A x \in Objects : Len(listeners[x]) < MaxStarts * Refs(x) \/ Refs(x) = 0
  /\ \E S \in {runStart(listeners, isMock)} :
        /\ status' = S.status
        /\ listeners' = S.listeners
        /\ inflight' = S.inflight
        /\ log' = S.log
        /\ executed' = S.executed
        /\ conflicted' = S.conflicted
  /\ phase' = "running"
  /\ UNCHANGED <<deps, reason, isMock, runningCannolis, lastAdd, stopRequested,
                 geometry, plugin, hydration>>

\* The live run of the plugin, reset and started again once it has ended
\* (complete, failed on conflicting alternatives, or stopped).
NextRestart ==
  \/ /\ TermCount(1) < MaxTerms
     /\ \E o \in Objects : \E term \in TermsOf(o) : addDependency(o, term)
  \/ startCannoli
  \/ \E x \in Objects : \E rej \in SUBSET Objects : executeResume(x, rej)
  \/ startOrStopCannoli
  \/ runReset
  \/ runRestart

SpecRestart == Init /\ [][NextRestart]_vars

(***************************************************************************)
(* Helpers of the properties.                                              *)
(***************************************************************************)
Last(js) == CHOOSE j \in js : \A k \in js : k <= j

\* The positions of the log with an entry of kind k.
Entries(lg, k) == {i \in 1..Len(lg) : lg[i].k = k}

\* The status of d when entry i of the step's log was written: the last
\* write to d before i, or d's status when the step began.
StatusAt(d, i) ==
  LET js == {j \in 1..(i - 1) : log'[j].k = "set" /\ log'[j].o = d}
  IN IF js = {} THEN status[d] ELSE log'[Last(js)].s

\* b depends solely on a and c solely on b.
Chain(a, b, c) == deps[b] = <<Single(a)>> /\ deps[c] = <<Single(b)>>

\* Some id of term t occurs in a term of the list.
Overlap(list, t) == \E i \in 1..Len(list) : list[i].ids \cap t.ids # {}

\* The end of the tryReject call that entry i of the log begins.
CallEnd(i) ==
  CHOOSE j \in Entries(log, "tryRejectEnd") :
    /\ j > i
    /\ log[j].o = log[i].o
    /\ \A k \in Entries(log, "tryRejectEnd") : (k > i /\ log[k].o = log[i].o) => j <= k

\* The status changes of the status machine (Error is a status of the graph
\* module's enumeration).
Allowed ==
  {<<Pending, Executing>>, <<Executing, Complete>>, <<Executing, Error>>,
   <<Pending, Rejected>>}

\* Some array term of y has more than one Complete member.
HasConflict(y) ==
  \E t \in 1..Len(deps[y]) :
    deps[y][t].alt /\ Cardinality({m \in deps[y][t].ids : status[m] = Complete}) > 1

(***************************************************************************)
(* The plugin's commands on one canvas file.  An invocation of             *)
(* startCannoli suspends twice: in await canvas.fetchData() and in the     *)
(* 1.5 s sleep; other handlers run in between.  A Run is named after the   *)
(* invocation that creates it.                                             *)
(***************************************************************************)

\* startCannoli(file) up to its first await: the check of runningCannolis.
startCannoliCheck(c) ==
  /\ pc[c] = "idle"
  /\ pc' = [pc EXCEPT ![c] = IF stored # 0 THEN "done" ELSE "fetching"]
  /\ UNCHANGED <<stored, live, kernel, geometry, hydration>>

\* canvas.fetchData() returns: the graph is parsed, onFinish is built and the
\* invocation sleeps for 1.5 s.
startCannoliFetched(c) ==
  /\ pc[c] = "fetching"
  /\ pc' = [pc EXCEPT ![c] = "sleeping"]
  /\ UNCHANGED <<stored, live, kernel, geometry, hydration>>

\* The sleep returns: the Run is created, stored under the basename (no
\* second check of runningCannolis) and started.
startCannoliRun(c) ==
  /\ pc[c] = "sleeping"
  /\ pc' = [pc EXCEPT ![c] = "done"]
  /\ stored' = c
  /\ live' = live \cup {c}
  /\ UNCHANGED <<kernel, geometry, hydration>>

\* Run r finishes and calls onFinish: delete this.runningCannolis[basename],
\* whichever Run the entry holds.
onFinish(r) ==
  /\ r \in live
  /\ live' = live \ {r}
  /\ stored' = 0
  /\ UNCHANGED <<pc, kernel, geometry, hydration>>

\* startOrStopCannoli on the file: the stored Run is stopped and its entry
\* deleted; with no entry, startCannoli is called (invocation c).
startOrStopCannoliClick(c) ==
  IF stored # 0
  THEN /\ live' = live \ {stored}
       /\ stored' = 0
       /\ UNCHANGED <<pc, kernel, geometry, hydration>>
  ELSE startCannoliCheck(c)

NextPlugin ==
  \/ \E c \in Calls : startCannoliCheck(c)
  \/ \E c \in Calls : startCannoliFetched(c)
  \/ \E c \in Calls : startCannoliRun(c)
  \/ \E r \in Calls : onFinish(r)
  \/ \E c \in Calls : startOrStopCannoliClick(c)

SpecPlugin == Init /\ [][NextPlugin]_vars

(***************************************************************************)
(* The geometric group assignment of CannoliVertex.                        *)
(***************************************************************************)

\* createRectangle(x, y, width, height).
createRectangle(x, y, width, height) ==
  [x |-> x, y |-> y, width |-> width, height |-> height,
   x_right |-> x + width, y_bottom |-> y + height]

\* encloses(a, b): a contains b, its sides included.
encloses(a, b) ==
  /\ a.x <= b.x
  /\ a.y <= b.y
  /\ a.x_right >= b.x_right
  /\ a.y_bottom >= b.y_bottom

\* Variant: the comparisons admit rectangles that only touch.
overlaps_Touching(a, b) ==
  LET horizontalOverlap == a.x <= b.x_right /\ a.x_right >= b.x
      verticalOverlap == a.y <= b.y_bottom /\ a.y_bottom >= b.y
      overlap == horizontalOverlap /\ verticalOverlap
  IN overlap /\ ~encloses(a, b) /\ ~encloses(b, a)

\* overlaps(a, b).
overlaps(a, b) ==
  LET horizontalOverlap == a.x < b.x_right /\ a.x_right > b.x
      verticalOverlap == a.y < b.y_bottom /\ a.y_bottom > b.y
      overlap == horizontalOverlap /\ verticalOverlap
  IN overlap /\ ~encloses(a, b) /\ ~encloses(b, a)

\* The rectangle setGroups builds from the canvasData of an entry.
rectangleOf(e) == createRectangle(e.x, e.y, e.width, e.height)

\* The members of S as a sequence, by ascending rank.
RECURSIVE Ordered(_, _)
Ordered(S, rank) ==
  IF S = {} THEN <<>>
  ELSE LET m == CHOOSE i \in S : \A j \in S : rank[i] <= rank[j]
       IN <<m>> \o Ordered(S \ {m}, rank)

\* for (const object in this.graph): the entries of g in the order for-in
\* visits the keys of an object: the keys that are array indices ("1", "2")
\* in ascending numeric order, then the other keys in insertion order.
forIn(g) ==
  Ordered({i \in DOMAIN g : g[i].id.index}, [i \in DOMAIN g |-> g[i].id.n])
    \o Ordered({i \in DOMAIN g : ~g[i].id.index}, [i \in DOMAIN g |-> i])

\* a.canvasData.width * a.canvasData.height
area(e) == e.width * e.height

\* Variant: the comparator is bArea - aArea.
RECURSIVE sort_Descending(_, _)
sort_Descending(g, seq) ==
  IF seq = <<>> THEN <<>>
  ELSE LET m == CHOOSE i \in 1..Len(seq) :
                  /\ \A j \in 1..Len(seq) : area(g[seq[i]]) >= area(g[seq[j]])
                  /\ \A j \in 1..(i - 1) : area(g[seq[j]]) # area(g[seq[i]])
       IN <<seq[m]>> \o sort_Descending(g, SubSeq(seq, 1, m - 1) \o SubSeq(seq, m + 1, Len(seq)))

\* groups.sort((a, b) => aArea - bArea): Array.prototype.sort is stable, the
\* entries of equal area keep the order they were pushed in.
RECURSIVE sort(_, _)
sort(g, seq) ==
  IF seq = <<>> THEN <<>>
  ELSE LET m == CHOOSE i \in 1..Len(seq) :
                  /\ \A j \in 1..Len(seq) : area(g[seq[i]]) <= area(g[seq[j]])
                  /\ \A j \in 1..(i - 1) : area(g[seq[j]]) # area(g[seq[i]])
       IN <<seq[m]>> \o sort(g, SubSeq(seq, 1, m - 1) \o SubSeq(seq, m + 1, Len(seq)))

\* Variant: the groups are left in the order they were pushed in.
setGroups_Unsorted(g, v) ==
  LET pushed == SelectSeq(forIn(g),
                  LAMBDA i : /\ g[i].kind = "vertex"
                             /\ g[i].type = "group"
                             /\ encloses(rectangleOf(g[i]), rectangleOf(g[v])))
  IN [k \in 1..Len(pushed) |-> g[pushed[k]].id]

\* setGroups() of the vertex at entry v: the graph is walked with for-in,
\* entries that are no vertex or no group are skipped, the groups whose
\* rectangle encloses the vertex's are pushed, sorted by area and mapped to
\* their ids.
setGroups(g, v) ==
  LET pushed == SelectSeq(forIn(g),
                  LAMBDA i : /\ g[i].kind = "vertex"
                             /\ g[i].type = "group"
                             /\ encloses(rectangleOf(g[i]), rectangleOf(g[v])))
      sorted == sort(g, pushed)
  IN [k \in 1..Len(sorted) |-> g[sorted[k]].id]

\* The canvasData of a node or group: a rectangle of positive size on the grid.
VertexData ==
  {e \in [kind : {"vertex"}, type : {"group", "text"},
          x : 0..(MaxCoord - 1), y : 0..(MaxCoord - 1),
          width : 1..MaxCoord, height : 1..MaxCoord] :
     e.x + e.width <= MaxCoord /\ e.y + e.height <= MaxCoord}

\* An edge of the graph: no CannoliVertex, its geometry is never read.
EdgeData ==
  [kind |-> "edge", type |-> "edge", x |-> 0, y |-> 0, width |-> 0, height |-> 0]

\* The ids of the canvas: ids that are no array index ("a1", "a2", ...), in
\* insertion order, or ids that are array indices ("1", "2", ...), in any order.
Keyings ==
  {[i \in 1..NumSlots |-> [index |-> FALSE, n |-> i]]} \cup
  {[i \in 1..NumSlots |-> [index |-> TRUE, n |-> p[i]]] : p \in Permutations(1..NumSlots)}

\* The graphs hydrateGraph builds: the nodes and groups of the canvas are
\* inserted first, its edges after them.
Layouts ==
  {[i \in 1..NumSlots |-> [id |-> k[i], kind |-> d[i].kind, type |-> d[i].type,
                           x |-> d[i].x, y |-> d[i].y,
                           width |-> d[i].width, height |-> d[i].height]] :
     d \in {f \in [1..NumSlots -> VertexData \cup {EdgeData}] :
              \A i, j \in 1..NumSlots : (i < j /\ f[i].kind = "edge") => f[j].kind = "edge"},
     k \in Keyings}

\* The entries of the graph that are vertices.
Vertices == {i \in DOMAIN canvas : canvas[i].kind = "vertex"}

\* A canvas is hydrated; no vertex has its groups yet.
laidOut ==
  /\ canvas \in Layouts
  /\ groups = <<>>
  /\ probe = NoProbe

InitGeometry == constructed /\ laidOut /\ noCalls /\ noDocument

\* The hydration pass asks whether the rectangles of two vertices overlap.
checkOverlap(a, b) ==
  /\ groups = <<>>
  /\ a \in Vertices /\ b \in Vertices
  /\ a < b
  /\ probe' = [a |-> a, b |-> b,
               result |-> overlaps(rectangleOf(canvas[a]), rectangleOf(canvas[b]))]
  /\ UNCHANGED <<canvas, groups, kernel, plugin, hydration>>

\* The hydration pass calls setGroups() on the vertices, one after another.
assignGroups ==
  /\ probe = NoProbe
  /\ Len(groups) < Cardinality(Vertices)
  /\ groups' = Append(groups, setGroups(canvas, Len(groups) + 1))
  /\ UNCHANGED <<canvas, probe, kernel, plugin, hydration>>

NextGeometry ==
  \/ \E a, b \in 1..NumSlots : checkOverlap(a, b)
  \/ assignGroups

SpecGeometry == InitGeometry /\ [][NextGeometry]_vars

\* The type enumerations of the graph module.
GroupType == {"for-each", "repeat", "basic", "while", "non-logic"}
CallNodeType == {"standard-call", "select", "categorize", "choose", "distribute"}
ContentNodeType ==
  {"input", "display", "static-reference", "dynamic-reference", "formatter"}
FloatingNodeType == {"variable"}
NodeType == CallNodeType \cup ContentNodeType \cup FloatingNodeType
EdgeType ==
  {"chat", "system-message", "write", "variable", "key", "list", "merge",
   "choice", "category", "config", "function", "logging"}

\* A type tag that no enumeration declares.
Undeclared == "undeclared"

\* What the switch over node.cannoliData?.type does with a tag: the class it
\* constructs, "none" where the case only logs "not implemented" and breaks,
\* "throw" in the default case.
nodeCase(type) ==
  CASE type = "for-each" -> "ForEachGroup"
    [] type = "repeat" -> "RepeatGroup"
    [] type = "basic" -> "CannoliGroup"
    [] type = "input" -> "InputNode"
    [] type = "display" -> "DisplayNode"
    [] type = "static-reference" -> "ReferenceNode"
    [] type = "dynamic-reference" -> "none"
    [] type = "formatter" -> "FormatterNode"
    [] type = "standard-call" -> "CallNode"
    [] type = "choose" -> "ChooseNode"
    [] type = "distribute" -> "DistributeNode"
    [] type = "categorize" -> "none"
    [] type = "select" -> "none"
    [] OTHER -> "throw"

\* What the switch over edge.cannoliData?.type constructs.
edgeCase(type) ==
  CASE type = "logging" -> "LoggingEdge"
    [] type = "system-message" -> "SystemMessageEdge"
    [] OTHER -> "CannoliEdge"

\* this.graph[id] = object, on the mapping m.
put(m, id, class) == (id :> class) @@ m

\* The loop over the nodes from node k on: the mapping it leaves and whether
\* it threw.
RECURSIVE hydrateNodes(_, _, _)
hydrateNodes(nodes, k, m) ==
  IF k > Len(nodes) THEN [graph |-> m, threw |-> FALSE]
  ELSE LET class == nodeCase(nodes[k].type)
       IN CASE class = "throw" -> [graph |-> m, threw |-> TRUE]
            [] class = "none" -> hydrateNodes(nodes, k + 1, m)
            [] OTHER -> hydrateNodes(nodes, k + 1, put(m, nodes[k].id, class))

\* The loop over the edges from edge k on.
RECURSIVE hydrateEdges(_, _, _)
hydrateEdges(edges, k, m) ==
  IF k > Len(edges) THEN m
  ELSE hydrateEdges(edges, k + 1, put(m, edges[k].id, edgeCase(edges[k].type)))

\* hydrateGraph() on the document data: the nodes, then the edges unless a
\* node threw.  The closing setGraph() loop hands every object the mapping
\* and changes no key.
hydrateGraph(data) ==
  LET n == hydrateNodes(data.nodes, 1, <<>>)
  IN IF n.threw THEN n
     ELSE [graph |-> hydrateEdges(data.edges, 1, n.graph), threw |-> FALSE]

\* The type tags a node and an edge of a document can carry, declared or not,
\* and their ids, which are distinct.
NodeTags == GroupType \cup NodeType \cup {Undeclared}
EdgeTags == EdgeType \cup {Undeclared}
NodeId(i) == [kind |-> "node", n |-> i]
EdgeId(i) == [kind |-> "edge", n |-> i]

\* The document whose nodes carry the tags of the sequence nt and whose edges
\* carry the tags of the sequence et.
Document(nt, et) ==
  [nodes |-> [i \in DOMAIN nt |-> [id |-> NodeId(i), type |-> nt[i]]],
   edges |-> [i \in DOMAIN et |-> [id |-> EdgeId(i), type |-> et[i]]]]

\* A document of up to MaxNodes nodes and MaxEdges edges is at hand and no
\* CannoliGraph is constructed yet.
parsed ==
  /\ \E nn \in 0..MaxNodes : \E ne \in 0..MaxEdges :
       \E nt \in [1..nn -> NodeTags] : \E et \in [1..ne -> EdgeTags] :
         cannoliCanvasData = Document(nt, et)
  /\ graph = <<>>
  /\ hydrated = "no"

InitHydrate == constructed /\ noCanvas /\ noCalls /\ parsed

\* new CannoliGraph(cannoliCanvasData): the constructor runs hydrateGraph().
newCannoliGraph ==
  /\ hydrated = "no"
  /\ LET h == hydrateGraph(cannoliCanvasData)
     IN /\ graph' = h.graph
        /\ hydrated' = IF h.threw THEN "threw" ELSE "returned"
  /\ UNCHANGED <<cannoliCanvasData, kernel, geometry, plugin>>

NextHydrate == newCannoliGraph

SpecHydrate == InitHydrate /\ [][NextHydrate]_vars

\* The objects that depend on a member of S, directly or through others.
RECURSIVE Downstream(_)
Downstream(S) ==
  LET T == S \cup UNION {Dependents(x) : x \in S}
  IN IF T = S THEN S ELSE Downstream(T)

\* The unit squares of the grid that rectangle r covers.
Cells(r) ==
  {c \in (0..MaxCoord) \X (0..MaxCoord) :
     r.x <= c[1] /\ c[1] < r.x_right /\ r.y <= c[2] /\ c[2] < r.y_bottom}

\* The entry of the canvas with the given id.
SlotOf(id) == CHOOSE i \in DOMAIN canvas : canvas[i].id = id

\* The group vertices whose rectangle covers all of the rectangle of v.
Enclosing(v) ==
  {i \in Vertices :
     /\ canvas[i].type = "group"
     /\ Cells(rectangleOf(canvas[v])) \subseteq Cells(rectangleOf(canvas[i]))}

\* Entry i is visited before entry j when the graph is enumerated: ids that
\* are array indices come first, by ascending number; the others follow in
\* insertion order.
VisitedBefore(i, j) ==
  \/ canvas[i].id.index /\ canvas[j].id.index /\ canvas[i].id.n < canvas[j].id.n
  \/ canvas[i].id.index /\ ~canvas[j].id.index
  \/ ~canvas[i].id.index /\ ~canvas[j].id.index /\ i < j

\* groups[v] lists exactly the enclosing groups of v, by non-decreasing area.
ListsEnclosingByArea(v) ==
  LET s == groups[v]
  IN /\ {s[k] : k \in 1..Len(s)} = {canvas[i].id : i \in Enclosing(v)}
     /\ Len(s) = Cardinality(Enclosing(v))
     /\ \A k, l \in 1..Len(s) :
          k < l => area(canvas[SlotOf(s[k])]) <= area(canvas[SlotOf(s[l])])
     /\ \A i, j \in Vertices :
          (Enclosing(v) = {i, j} /\ area(canvas[i]) < area(canvas[j]))
            => s = <<canvas[i].id, canvas[j].id>>

\* The state as a handler finds it.
Now == Working(listeners, isMock)

\* The Complete members of term t of o.
CompleteIn(o, t) == {d \in deps[o][t].ids : status[d] = Complete}

(***************************************************************************)
(* The properties.                                                         *)
(***************************************************************************)

\* C1: in a chain a -> b -> c (b depends solely on a, c solely on b) with
\* listeners set up, whenever a is Rejected so are b and c, and neither b
\* nor c has ever entered Executing.
C1_RejectionPropagates ==
  \A a, b, c \in Objects :
    (phase # "build" /\ Chain(a, b, c) /\ status[a] = Rejected)
      => /\ status[b] = Rejected
         /\ status[c] = Rejected
         /\ b \notin executed
         /\ c \notin executed

C1_Witness ==
  \E a, b, c \in Objects :
    /\ phase # "build"
    /\ Chain(a, b, c)
    /\ status[a] = Rejected /\ status[b] = Rejected /\ status[c] = Rejected
    /\ \E i \in Entries(log, "tryReject") : log[i].o = c

\* C2: every tryReject call leaves its object Rejected when some term, at
\* any position of the dependency list, is fully rejected at the call, and
\* leaves the status as it was when no term is.
C2_TryRejectAnyTerm ==
  \A i \in Entries(log, "tryReject") :
    /\ log[i].s = "any" => log[CallEnd(i)].c = Rejected
    /\ log[i].s = "none" => log[CallEnd(i)].c = log[i].c

\* C3, as claimed: an object whose dependency list is the single id d leaves
\* Pending only when d is already Complete.
C3_LeavesPendingOnlyAfterComplete ==
  [][\A y \in Objects : \A i \in 1..Len(log') :
       (/\ Len(deps[y]) = 1
        /\ ~deps[y][1].alt
        /\ log'[i].k = "set"
        /\ log'[i].o = y
        /\ log'[i].c = Pending
        /\ log'[i].s # Pending)
         => \A d \in deps[y][1].ids : StatusAt(d, i) = Complete]_vars

\* C3, amended: an object enters Executing only when every single id d among
\* its dependency terms (in particular the single id of a one-term list) is
\* already Complete; it never starts executing while d is Pending,
\* Executing or Rejected.
C3_ExecutesOnlyAfterComplete ==
  [][\A y \in Objects : \A i \in 1..Len(log') :
       (/\ log'[i].k = "set"
        /\ log'[i].o = y
        /\ log'[i].s = Executing)
         => \A t \in 1..Len(deps[y]) :
              ~deps[y][t].alt => \A d \in deps[y][t].ids : StatusAt(d, i) = Complete]_vars

C3_Witness ==
  \E y, d \in Objects :
    /\ deps[y] = <<Single(d)>>
    /\ status[d] = Complete
    /\ \E i \in Entries(log, "set") : log[i].o = y /\ log[i].s = Executing

C5_AddDependencyRejectsDuplicates ==
  /\ [][phase' = "build" =>
          LET o == lastAdd'.o
              t == lastAdd'.term
          IN IF Overlap(deps[o], t)
             THEN lastAdd'.threw /\ deps' = deps
             ELSE ~lastAdd'.threw /\ deps' = [deps EXCEPT ![o] = Append(@, t)]]_vars
  /\ [](\A o \in Objects : \A i, j \in 1..Len(deps[o]) :
          i # j => deps[o][i].ids \cap deps[o][j].ids = {})

C5_Witness ==
  /\ lastAdd.threw
  /\ lastAdd.term.alt
  /\ \E i \in 1..Len(deps[lastAdd.o]) :
       /\ deps[lastAdd.o][i].alt
       /\ deps[lastAdd.o][i] # lastAdd.term
       /\ deps[lastAdd.o][i].ids \cap lastAdd.term.ids # {}

\* C6: within one run every write that changes a status is Pending ->
\* Executing, Executing -> Complete, Executing -> Error or Pending ->
\* Rejected; so Rejected and Complete are final, and tryReject never turns an
\* Executing or Complete object Rejected.
C6_StatusMachine ==
  \A i \in Entries(log, "set") :
    log[i].c # log[i].s => <<log[i].c, log[i].s>> \in Allowed

C6_Witness ==
  /\ \E i \in Entries(log, "set") : log[i].c = Pending /\ log[i].s = Rejected
  /\ \E i \in Entries(log, "set") : log[i].c = Executing /\ log[i].s = Complete
  /\ \E i \in Entries(log, "set") : log[i].c = Pending /\ log[i].s = Executing
  /\ \E o \in Objects : status[o] = Rejected /\ \E d \in Objects : d \in executed /\ o \in Dependents(d)

\* C7: every status write is followed by an emit of that status, every emit
\* reaches every listener registered on the object, and the object's status
\* equals the status carried whenever a listener runs.
C7_EveryListenerNotified ==
  /\ \A i \in Entries(log, "set") :
       /\ i < Len(log)
       /\ log[i + 1].k = "emit" /\ log[i + 1].o = log[i].o /\ log[i + 1].s = log[i].s
  /\ \A x \in Objects : \A s \in Statuses :
       Cardinality({i \in Entries(log, "listener") : log[i].d = x /\ log[i].s = s})
         = Cardinality({i \in Entries(log, "emit") : log[i].o = x /\ log[i].s = s})
             * Len(listeners[x])
  /\ \A i \in Entries(log, "listener") : log[i].c = log[i].s

\* C8: a started run does not deadlock: while it is live (neither complete,
\* failed nor stopped) some object is executing, so the run can go on.
C8_NoDeadlock == phase = "running" => inflight # {}

\* C9: in a mock run no execute calls run(), only mockRun(), and the run
\* does not get stuck before every object is terminal.
C9_MockRunTerminates ==
  isMock =>
    /\ Entries(log, "run") = {}
    /\ phase = "running" => inflight # {}

C11_FaultBecomesError ==
  \A i \in Entries(log, "fault") :
    \A y \in Downstream({log[i].o}) : status[y] = Error

\* C12, as claimed: setGroups() leaves in groups exactly the ids of the group
\* vertices whose rectangle encloses the vertex's (sides included), by
\* non-decreasing area, groups of equal area in graph insertion order; a
\* vertex inside G1 nested in a larger G2 gets [G1, G2].
C12_SetGroupsInsertionOrder ==
  \A v \in 1..Len(groups) :
    /\ ListsEnclosingByArea(v)
    /\ \A k, l \in 1..Len(groups[v]) :
         (k < l /\ area(canvas[SlotOf(groups[v][k])]) = area(canvas[SlotOf(groups[v][l])]))
           => SlotOf(groups[v][k]) < SlotOf(groups[v][l])

\* C12, amended: as above, but groups of equal area are kept in the order
\* the graph is enumerated in (ids that are array indices first, by ascending
\* number, then the other ids in insertion order).
C12_SetGroupsEnumerationOrder ==
  \A v \in 1..Len(groups) :
    /\ ListsEnclosingByArea(v)
    /\ \A k, l \in 1..Len(groups[v]) :
         (k < l /\ area(canvas[SlotOf(groups[v][k])]) = area(canvas[SlotOf(groups[v][l])]))
           => VisitedBefore(SlotOf(groups[v][k]), SlotOf(groups[v][l]))

C12_Witness ==
  \E v \in 1..Len(groups) :
    /\ canvas[v].type = "text"
    /\ Len(groups[v]) = 2
    /\ area(canvas[SlotOf(groups[v][1])]) < area(canvas[SlotOf(groups[v][2])])
    /\ SlotOf(groups[v][2]) < SlotOf(groups[v][1])

\* C15: overlaps(a, b) is true exactly when a and b share part of the plane
\* and neither encloses the other; overlaps(a, b) = overlaps(b, a); it is
\* false when one rectangle encloses the other and when they are disjoint.
C15_OverlapsIsPartialOverlap ==
  probe # NoProbe =>
    LET a == rectangleOf(canvas[probe.a])
        b == rectangleOf(canvas[probe.b])
        intersect == Cells(a) \cap Cells(b) # {}
    IN /\ probe.result <=> (intersect /\ ~encloses(a, b) /\ ~encloses(b, a))
       /\ probe.result = overlaps(b, a)
       /\ (encloses(a, b) \/ encloses(b, a)) => ~probe.result
       /\ ~intersect => ~probe.result

C15_Witness ==
  /\ probe # NoProbe
  /\ probe.result
  /\ Cells(rectangleOf(canvas[probe.a])) \cap Cells(rectangleOf(canvas[probe.b])) # {}

\* C16: in a layout where no two groups partially overlap, the groups of
\* every vertex form a nesting chain: each group of the list is enclosed by
\* every group after it.
C16_GroupsAreNestingChain ==
  (\A i, j \in Vertices :
      (canvas[i].type = "group" /\ canvas[j].type = "group")
        => ~overlaps(rectangleOf(canvas[i]), rectangleOf(canvas[j])))
    => \A v \in 1..Len(groups) : \A k, l \in 1..Len(groups[v]) :
         k < l => encloses(rectangleOf(canvas[SlotOf(groups[v][l])]),
                           rectangleOf(canvas[SlotOf(groups[v][k])]))

C16_Witness ==
  /\ \A i, j \in Vertices :
       (canvas[i].type = "group" /\ canvas[j].type = "group")
         => ~overlaps(rectangleOf(canvas[i]), rectangleOf(canvas[j]))
  /\ \E v \in 1..Len(groups) :
       /\ Len(groups[v]) = 2
       /\ canvas[v].type = "text"
       /\ rectangleOf(canvas[SlotOf(groups[v][1])]) # rectangleOf(canvas[SlotOf(groups[v][2])])
       /\ rectangleOf(canvas[SlotOf(groups[v][1])]) # rectangleOf(canvas[v])

\* C13: for an object in each of whose alternative-set terms exactly one
\* member is Complete and the others are Rejected, allDependenciesComplete
\* returns true exactly when every single-id term is Complete and every
\* alternative-set term has exactly one Complete member.
C13_PollAgreesWithEventPath ==
  \A o \in Objects :
    (\A t \in 1..Len(deps[o]) :
        deps[o][t].alt =>
          /\ Cardinality(CompleteIn(o, t)) = 1
          /\ \A d \in deps[o][t].ids \ CompleteIn(o, t) : status[d] = Rejected)
      => (allDependenciesComplete(Now, o)
            <=> \A t \in 1..Len(deps[o]) :
                  IF deps[o][t].alt
                  THEN Cardinality(CompleteIn(o, t)) = 1
                  ELSE \A d \in deps[o][t].ids : status[d] = Complete)

\* C14: allDependenciesComplete returns true if and only if every object the
\* dependency list refers to (each single id, each member of each
\* alternative set) is Complete; on an empty list it returns true.
C14_PollIsAllComplete ==
  \A o \in Objects :
    /\ allDependenciesComplete(Now, o)
         <=> \A d \in UNION {deps[o][t].ids : t \in 1..Len(deps[o])} : status[d] = Complete
    /\ deps[o] = <<>> => allDependenciesComplete(Now, o)

C14_Witness ==
  /\ \E o \in Objects :
       /\ Len(deps[o]) >= 2
       /\ allDependenciesComplete(Now, o)
       /\ o \in executed
  /\ \E o \in Objects :
       /\ \E t \in 1..Len(deps[o]) : deps[o][t].alt /\ CompleteIn(o, t) # {}
       /\ ~allDependenciesComplete(Now, o)

\* C18: reset(run), whatever the status of its object, writes Pending to
\* that object and emits exactly one update carrying Pending; the dependency
\* lists and the registered listeners stay as they were; and no dependent is
\* returned to Pending by it: every object keeps its status until its own
\* reset, and nothing but the resets writes a status.
C18_ResetOnlyResetsItself ==
  [][phase' = "reset" =>
       /\ deps' = deps
       /\ listeners' = listeners
       /\ \A o \in Objects :
            /\ status'[o] = Pending
            /\ Cardinality({i \in Entries(log', "set") : log'[i].o = o}) = 1
            /\ Cardinality({i \in Entries(log', "emit") : log'[i].o = o}) = 1
       /\ \A i \in Entries(log', "set") :
            /\ log'[i].s = Pending
            /\ log'[i].c = status[log'[i].o]
            /\ i < Len(log')
            /\ log'[i + 1] = Ev("emit", log'[i].o, 0, Pending, Pending)
       /\ \A i \in 1..Len(log') :
            /\ log'[i].k \in {"set", "emit", "listener", "updated"}
            /\ log'[i].k # "set" => log'[i].s = Pending]_vars

C18_Witness ==
  /\ phase = "reset"
  /\ \E i, j \in Entries(log, "set") :
       /\ log[i].c = Complete
       /\ log[j].o \in Dependents(log[i].o)
       /\ log[j].c = Rejected
  /\ \E i \in Entries(log, "set") : log[i].c = Executing
  /\ \E i \in Entries(log, "set") : log[i].c = Pending
  /\ \E i \in Entries(log, "updated") : log[i].s = Pending

\* C20: in a handler in which no listener throws, every emit of an object d
\* causes exactly one dependencyUpdated call on each dependent per dependency
\* term that names d, also after the run was reset and started again.
C20_OneCallPerTerm ==
  Entries(log, "throw") = {} =>
    \A d, y \in Objects : \A st \in Statuses :
      Cardinality({i \in Entries(log, "updated") :
                     log[i].o = y /\ log[i].d = d /\ log[i].s = st})
        = Cardinality({i \in Entries(log, "emit") : log[i].o = d /\ log[i].s = st})
            * Cardinality({t \in 1..Len(deps[y]) : d \in deps[y][t].ids})

C19_OneLiveRunPerFile ==
  /\ Cardinality(live) <= 1
  /\ \A r \in live : stored = r

\* C21: a tryReject call writes Rejected and emits the update at most once,
\* however many dependency terms are fully rejected when it is called.
C21_TryRejectEmitsOnce ==
  \A i \in Entries(log, "tryReject") :
    Cardinality({j \in Entries(log, "emit") :
                   /\ i < j /\ j < CallEnd(i)
                   /\ log[j].o = log[i].o
                   /\ log[j].s = Rejected}) <= 1

\* C22: after setGroups() the groups of a vertex do not contain the id of
\* the vertex itself; a group is not among its own enclosing groups.
C22_GroupsExcludeOwnId ==
  \A v \in 1..Len(groups) :
    \A k \in 1..Len(groups[v]) : groups[v][k] # canvas[v].id

\* The ids of the nodes and of the edges of a document.
IdsOf(data) ==
  {data.nodes[i].id : i \in DOMAIN data.nodes} \cup
  {data.edges[i].id : i \in DOMAIN data.edges}

\* Every node and every edge of the document carries a tag of the declared
\* type enumerations.
AllDeclared(data) ==
  /\ \A i \in DOMAIN data.nodes : data.nodes[i].type \in GroupType \cup NodeType
  /\ \A i \in DOMAIN data.edges : data.edges[i].type \in EdgeType

\* C23: hydrating a document whose tags are all declared returns a mapping
\* whose keys are exactly the node ids and edge ids of the document, and a
\* node with an undeclared tag makes hydration throw.
C23_HydrationKeepsEveryObject ==
  hydrated # "no" =>
    /\ AllDeclared(cannoliCanvasData) =>
          /\ hydrated = "returned"
          /\ DOMAIN graph = IdsOf(cannoliCanvasData)
    /\ (\E i \in DOMAIN cannoliCanvasData.nodes :
          cannoliCanvasData.nodes[i].type \notin GroupType \cup NodeType)
          => hydrated = "threw"
====
